---- MODULE Spec2Model ----
(***************************************************************************)
(* Model of the ranking loss of src/model.py: the similarity scorers       *)
(* cosine_sim / order_sim, ContrastiveLoss (constructor and forward) and   *)
(* VSE.forward_loss with the memory bank fields VSE.mb_img / mb_cap /      *)
(* mb_ind.                                                                 *)
(*                                                                         *)
(* Real numbers are fixed-point integers: the real x is the integer        *)
(* x * Scale, products are rescaled by Scale, divisions round down.        *)
(* A one-dimensional tensor is a sequence, a matrix a sequence of rows.    *)
(* A Python exception is the outcome "raised" together with its class.     *)
(***************************************************************************)
EXTENDS Integers, Sequences, FiniteSets

(* ------------------------------ bounds --------------------------------- *)
MaxB == 2
MaxBank == 2
MaxId == 2
MaxK == 2

(* ------------------------ fixed-point arithmetic ----------------------- *)
Scale == 1000

RECURSIVE SumSeq(_)
SumSeq(q) == IF q = <<>> THEN 0 ELSE Head(q) + SumSeq(Tail(q))

Mul(x, y) == (x * y) \div Scale

\* e^n * Scale for n in -7..6, rounded to the nearest integer.
ETable == <<1, 2, 7, 18, 50, 135, 368, 1000, 2718, 7389, 20086, 54598, 148413, 403429>>

EPow(n) == IF n < -7 THEN 0 ELSE ETable[n + 8]

\* e^(f/Scale) * Scale for 0 <= f < Scale, by the Taylor series.
ExpFrac(f) ==
    LET t1 == f
        t2 == (t1 * t1) \div (2 * Scale)
        t3 == (t2 * t1) \div (3 * Scale)
        t4 == (t3 * t1) \div (4 * Scale)
        t5 == (t4 * t1) \div (5 * Scale)
        t6 == (t5 * t1) \div (6 * Scale)
        t7 == (t6 * t1) \div (7 * Scale)
    IN  Scale + t1 + t2 + t3 + t4 + t5 + t6 + t7

\* torch.exp
Exp(x) == LET v == x IN (EPow(v \div Scale) * ExpFrac(v % Scale)) \div Scale

\* torch.log on arguments >= 1: y = e^n * m with 1 <= m < e, and
\* ln m = 2 artanh((m - 1) / (m + 1)) by its series.
Log(y) ==
    LET v == y
        n == CHOOSE a \in 0..6 : EPow(a) <= v /\ (a = 6 \/ v < EPow(a + 1))
        m == (v * Scale) \div EPow(n)
        z == ((m - Scale) * Scale) \div (m + Scale)
        z2 == Mul(z, z)
        t3 == Mul(z, z2)
        t5 == Mul(t3, z2)
        t7 == Mul(t5, z2)
        t9 == Mul(t7, z2)
    IN  n * Scale + 2 * (z + t3 \div 3 + t5 \div 5 + t7 \div 7 + t9 \div 9)

RECURSIVE SqrtSearch(_, _, _)
SqrtSearch(n, lo, hi) ==
    IF lo = hi THEN lo
    ELSE LET mid == (lo + hi + 1) \div 2
         IN  IF mid * mid <= n THEN SqrtSearch(n, mid, hi)
             ELSE SqrtSearch(n, lo, mid - 1)

\* Tensor.sqrt of a sum of squares of fixed-point numbers.
Sqrt(n) == SqrtSearch(n, 0, 4 * Scale)

\* Tensor.clamp(min=0) and F.relu
Relu(x) == IF x < 0 THEN 0 ELSE x

(* ------------------------------ tensors -------------------------------- *)
\* A tensor holds its values: they are computed once, when it is built.
Tensor1(t) == t \o <<>>
Tensor2(m) == [i \in 1..Len(m) |-> m[i] \o <<>>] \o <<>>

Range(q) == {q[p] : p \in 1..Len(q)}

\* Tensor.sum(1): one sum per row.
RowSums(m) == Tensor1([i \in 1..Len(m) |-> SumSeq(m[i])])

\* Tensor.sum(0): one sum per column; ncols is the second dimension.
ColSums(m, ncols) == Tensor1([j \in 1..ncols |-> SumSeq([i \in 1..Len(m) |-> m[i][j]])])

\* torch.eye(n)
Eye(n) == Tensor2([i \in 1..n |-> [j \in 1..n |-> IF i = j THEN Scale ELSE 0]])

RECURSIVE TopkValues(_, _)
\* torch.topk(row, k)[0] for k <= Len(row): the k largest values, descending.
TopkValues(row, k) ==
    IF k = 0 THEN <<>>
    ELSE LET p == CHOOSE a \in 1..Len(row) : \A b \in 1..Len(row) : row[b] <= row[a]
             rest == Tensor1([a \in 1..(Len(row) - 1) |-> IF a < p THEN row[a] ELSE row[a + 1]])
         IN  <<row[p]>> \o TopkValues(rest, k - 1)

(* ------------------------- similarity scorers -------------------------- *)
cosine_sim(im, s) ==
    Tensor2([i \in 1..Len(im) |-> [j \in 1..Len(s) |->
        SumSeq([d \in 1..Len(im[i]) |-> im[i][d] * s[j][d]]) \div Scale]])

order_sim(im, s) ==
    Tensor2([i \in 1..Len(im) |-> [j \in 1..Len(s) |->
        0 - Sqrt(SumSeq([d \in 1..Len(im[i]) |->
                    Relu(s[j][d] - im[i][d]) * Relu(s[j][d] - im[i][d])]))]])

Sim(name, im, s) == IF name = "order_sim" THEN order_sim(im, s) ELSE cosine_sim(im, s)

(* --------------------------- ContrastiveLoss --------------------------- *)
\* Python's None, and a value that is not None.
None == <<>>
Some(x) == <<x>>

ContrastiveLoss_init(opt) ==
    [sim       |-> IF opt.measure = "order" THEN "order_sim" ELSE "cosine_sim",
     opt       |-> opt,
     g_alpha   |-> opt.global_alpha,
     g_beta    |-> opt.global_beta,
     g_ep_posi |-> opt.global_ep_posi,
     g_ep_nega |-> opt.global_ep_nega,
     l_alpha   |-> opt.local_alpha,
     l_ep      |-> opt.local_ep]

\* What one call of forward leaves behind: how it ended, the loss it returned
\* and the values of its locals that the properties below speak about.
NoResult ==
    [outcome   |-> "none",   \* "returned" or "raised" after a call
     error     |-> "",       \* the exception class when raised
     isnan     |-> FALSE,    \* the returned loss is NaN
     loss      |-> 0,        \* the returned loss otherwise
     bank_img  |-> <<>>,     \* local mb_img after line 313
     bank_cap  |-> <<>>,     \* local mb_cap after line 314
     topk_k    |-> <<>>,     \* the k of each torch.topk call made, in order
     wit       |-> <<>>,
     wii       |-> <<>>,
     loss_diag |-> <<>>,     \* the positive term per sample
     rank_term |-> <<>>]     \* log(1+S_.sum(0))/l_alpha + log(1+S_.sum(1))/l_alpha per sample

Raise(err, partial) == [partial EXCEPT !.outcome = "raised", !.error = err]

\* x / y on fixed-point numbers.
Div(x, y) == (x * Scale) \div y

RECURSIVE MaxSeq(_)
MaxSeq(q) == IF Len(q) = 1 THEN q[1]
             ELSE LET m == MaxSeq(Tail(q)) IN IF Head(q) >= m THEN Head(q) ELSE m

\* Lines 275-294 for a given score matrix.
hinge_cost(self, scores, bsize) ==
    LET diagonal == [i \in 1..bsize |-> scores[i][i]]
        cost_s == [i \in 1..bsize |-> [j \in 1..bsize |->
                     IF i = j THEN 0
                     ELSE Relu(self.opt.margin + scores[i][j] - diagonal[i])]]
        cost_im == [i \in 1..bsize |-> [j \in 1..bsize |->
                     IF i = j THEN 0
                     ELSE Relu(self.opt.margin + scores[i][j] - diagonal[j])]]
    IN  IF self.opt.max_violation
        THEN SumSeq([i \in 1..bsize |-> MaxSeq(cost_s[i])])
             + SumSeq([j \in 1..bsize |-> MaxSeq([i \in 1..bsize |-> cost_im[i][j]])])
        ELSE SumSeq(RowSums(cost_s)) + SumSeq(RowSums(cost_im))

\* The hinge branch as it would run if scores were computed before it.
hinge_branch_scores_bound(self, im, s) ==
    IF Len(im) = 0 /\ self.opt.max_violation
    THEN Raise("IndexError", NoResult)
    ELSE [NoResult EXCEPT !.outcome = "returned",
                          !.loss = hinge_cost(self, Sim(self.sim, im, s), Len(im))]

\* Lines 273-294: scores is a local of forward that is first assigned at
\* line 298, so reading it at line 275 raises UnboundLocalError.
hinge_branch(self, im, s) == Raise("UnboundLocalError", NoResult)

\* Line 308 without line 309: k is opt.mb_k whatever the batch size.
select_mb_k_ignoring_batch(opt_mb_k, bsize) == opt_mb_k

\* Lines 308-309.
select_mb_k(opt_mb_k, bsize) == IF bsize < opt_mb_k THEN bsize ELSE opt_mb_k

\* Line 311 with the test dropped: every bank entry is marked usable.
used_ind_all_usable(mb_ind, indices) == Tensor1([p \in 1..Len(mb_ind) |-> 1])

\* Line 311.
used_ind(mb_ind, indices) ==
    Tensor1([p \in 1..Len(mb_ind) |-> IF mb_ind[p] \in Range(indices) THEN 0 ELSE 1])

RECURSIVE Masked(_, _)
Masked(t, mask) ==
    IF t = <<>> \/ mask = <<>> THEN <<>>
    ELSE (IF Head(mask) = 1 THEN <<Head(t)>> ELSE <<>>) \o Masked(Tail(t), Tail(mask))

\* Boolean-mask indexing that does not compare the two shapes.
MaskIndex_unchecked(t, mask) == [ok |-> TRUE, val |-> Masked(t, mask)]

\* Lines 313-314, t[mask]: a new tensor of the rows the mask selects;
\* IndexError when the mask's length is not the tensor's first dimension.
MaskIndex(t, mask) ==
    IF Len(mask) # Len(t) THEN [ok |-> FALSE, val |-> <<>>]
    ELSE [ok |-> TRUE, val |-> Masked(t, mask)]

\* The positive term with the sign lost.
positive_term_unsigned(x) == Log(Scale + Relu(x))

\* Lines 342 and 348: - torch.log(1 + F.relu(x)).
positive_term(x) == 0 - Log(Scale + Relu(x))

\* ContrastiveLoss.forward
forward(self, im, s, mb_img, mb_cap, mb_ind, indices) ==
    IF self.opt.max_violation \/ self.opt.sum_violation
    THEN hinge_branch(self, im, s)
    ELSE
    LET bsize == Len(im)
        scores == Sim(self.sim, im, s)
        tmp == Eye(bsize)
        s_diag == Tensor2([i \in 1..bsize |-> [j \in 1..bsize |-> Mul(tmp[i][j], scores[i][j])]])
        scores_ == Tensor2([i \in 1..bsize |-> [j \in 1..bsize |-> scores[i][j] - s_diag[i][j]]])
        s_diag_sum == ColSums(s_diag, bsize)
        \* lines 308-314
        mb_k == select_mb_k(self.opt.mb_k, bsize)
        mask == used_ind(mb_ind[1], indices)
        img_f == MaskIndex(mb_img[1], mask)
        cap_f == MaskIndex(mb_cap[1], mask)
        filtered == [NoResult EXCEPT !.bank_img = img_f.val, !.bank_cap = cap_f.val]
        \* lines 316-322
        scores_img_glob == Sim(self.sim, im, cap_f.val)
        top_i == Tensor1([i \in 1..bsize |-> TopkValues(scores_img_glob[i], mb_k)])
        i2t_k_avg == Tensor1([i \in 1..bsize |-> SumSeq([a \in 1..mb_k |->
                        Exp(Mul(self.g_beta, top_i[i][a]) - self.g_ep_nega)])])
        i2t_k_avg_positive == Tensor1([i \in 1..bsize |-> SumSeq([a \in 1..mb_k |->
                        Exp(Mul(self.g_alpha, top_i[i][a] - self.g_ep_posi))])])
        scores_cap_glob == Sim(self.sim, s, img_f.val)
        top_t == Tensor1([i \in 1..bsize |-> TopkValues(scores_cap_glob[i], mb_k)])
        t2i_k_avg == Tensor1([i \in 1..bsize |-> SumSeq([a \in 1..mb_k |->
                        Exp(Mul(self.g_beta, top_t[i][a]) - self.g_ep_nega)])])
        t2i_k_avg_positive == Tensor1([i \in 1..bsize |-> SumSeq([a \in 1..mb_k |->
                        Exp(Mul(self.g_alpha, top_t[i][a] - self.g_ep_posi))])])
        \* lines 324-338
        exp_sii == Tensor1([i \in 1..bsize |-> Exp(Mul(self.g_beta, s_diag_sum[i]))])
        wit0 == Tensor2([i \in 1..bsize |-> [j \in 1..bsize |->
                    Div(i2t_k_avg[i] + t2i_k_avg[j],
                        i2t_k_avg[i] + t2i_k_avg[j] + exp_sii[i] + exp_sii[j])]])
        exp_sii_posi == Tensor1([i \in 1..bsize |->
                    Exp(Mul(self.g_alpha, s_diag_sum[i] - self.g_ep_posi))])
        wii == Tensor1([i \in 1..bsize |->
                    Scale - Div(exp_sii_posi[i],
                                exp_sii_posi[i] + i2t_k_avg_positive[i] + t2i_k_avg_positive[i])])
        wit == Tensor2([i \in 1..bsize |-> [j \in 1..bsize |->
                    wit0[i][j] - Mul(wit0[i][j], tmp[i][j])]])
        \* lines 340-348
        S_ == IF mb_img # None
              THEN Tensor2([i \in 1..bsize |-> [j \in 1..bsize |->
                      Exp(Mul(Mul(self.l_alpha, wit[i][j]), scores_[i][j] - self.l_ep))]])
              ELSE Tensor2([i \in 1..bsize |-> [j \in 1..bsize |->
                      Exp(Mul(self.l_alpha, scores_[i][j] - self.l_ep))]])
        loss_diag == IF mb_img # None
                     THEN Tensor1([i \in 1..bsize |-> positive_term(Mul(s_diag_sum[i], wii[i]))])
                     ELSE Tensor1([i \in 1..bsize |-> positive_term(s_diag_sum[i])])
        \* lines 350-356
        col == ColSums(S_, bsize)
        row == RowSums(S_)
        rank == Tensor1([i \in 1..bsize |-> Div(Log(Scale + col[i]), self.l_alpha)
                                    + Div(Log(Scale + row[i]), self.l_alpha)])
        total == SumSeq([i \in 1..bsize |-> rank[i] + loss_diag[i]])
        loss == [outcome   |-> "returned",
                 error     |-> "",
                 \* the sum over an empty batch is 0.0, and 0.0 / 0 is NaN
                 isnan     |-> (bsize = 0),
                 loss      |-> IF bsize = 0 THEN 0 ELSE total \div bsize,
                 bank_img  |-> IF mb_img # None THEN img_f.val ELSE <<>>,
                 bank_cap  |-> IF mb_img # None THEN cap_f.val ELSE <<>>,
                 topk_k    |-> IF mb_img # None THEN <<mb_k, mb_k, mb_k, mb_k>> ELSE <<>>,
                 wit       |-> IF mb_img # None THEN wit ELSE <<>>,
                 wii       |-> IF mb_img # None THEN wii ELSE <<>>,
                 loss_diag |-> loss_diag,
                 rank_term |-> rank]
    IN  IF mb_img = None THEN loss
        \* line 313: IndexError, the mask's shape is not the tensor's
        ELSE IF ~img_f.ok THEN Raise("IndexError", NoResult)
        \* line 314: the same
        ELSE IF ~cap_f.ok
        THEN Raise("IndexError", [NoResult EXCEPT !.bank_img = img_f.val])
        \* line 317: torch.topk raises RuntimeError, k is out of range
        ELSE IF mb_k > Len(cap_f.val)
        THEN Raise("RuntimeError", [filtered EXCEPT !.topk_k = <<mb_k>>])
        \* line 321: the same
        ELSE IF mb_k > Len(img_f.val)
        THEN Raise("RuntimeError", [filtered EXCEPT !.topk_k = <<mb_k, mb_k, mb_k>>])
        ELSE loss

(* ------------------------------- inputs -------------------------------- *)
\* Unit-norm embedding vectors (1, 0), (0.6, 0.8), (0, 1) and (0.8, 0.6).
Unit == <<<<1000, 0>>, <<600, 800>>, <<0, 1000>>, <<800, 600>>>>

\* The data set: sample identities, and the embedding the encoders give
\* the image of sample i.
Ids == 1..MaxId
Emb(i) == Unit[((i - 1) % Len(Unit)) + 1]

\* The options ContrastiveLoss reads from opt.  The hinge branch ends before
\* it reads measure or mb_k, so one value of each is kept for it.
Opts ==
    {o \in [measure : {"cosine", "order"},
            max_violation : BOOLEAN, sum_violation : BOOLEAN,
            margin : {200},
            mb_k : 1..MaxK,
            global_alpha : {3000}, global_beta : {2000},
            global_ep_posi : {500}, global_ep_nega : {300},
            local_alpha : {2000}, local_ep : {300}] :
        (o.max_violation \/ o.sum_violation) => (o.measure = "cosine" /\ o.mb_k = 1)}

(* -------------------------------- state -------------------------------- *)
VARIABLES
    criterion,   \* VSE.criterion, the ContrastiveLoss object
    mb_img,      \* VSE.mb_img
    mb_cap,      \* VSE.mb_cap
    mb_ind,      \* VSE.mb_ind
    call         \* the forward_loss call in progress: its arguments and result

vars == <<criterion, mb_img, mb_cap, mb_ind, call>>

NoCall == [im |-> <<>>, s |-> <<>>, indices |-> <<>>, logged |-> FALSE, res |-> NoResult]

\* VSE.__init__: the bank starts absent, the criterion is built from opt.
Init ==
    /\ criterion \in {ContrastiveLoss_init(o) : o \in Opts}
    /\ mb_img = None
    /\ mb_cap = None
    /\ mb_ind = None
    /\ call = NoCall

\* The training loop stores a bank of M entries in the three fields: the
\* embeddings an earlier step gave M samples, in which the caption of
\* sample i lies at Emb(i + 1).
SetBank ==
    /\ call.res.outcome = "none"
    /\ \E M \in 0..MaxBank :
         \E ind \in [1..M -> Ids] :
            /\ mb_img' = Some(Tensor1([p \in 1..M |-> Emb(ind[p])]))
            /\ mb_cap' = Some(Tensor1([p \in 1..M |-> Emb(ind[p] + 1)]))
            /\ mb_ind' = Some(ind)
    /\ UNCHANGED <<criterion, call>>

DropLast(q) == SubSeq(q, 1, Len(q) - 1)

\* The training loop refreshes one of the three fields without the others:
\* a longest array loses its last entry, which leaves a bank whose arrays
\* differ in length by one.
SetBankField ==
    /\ call.res.outcome = "none"
    /\ mb_img # None
    /\ LET longest == CHOOSE n \in {Len(mb_img[1]), Len(mb_cap[1]), Len(mb_ind[1])} :
                          /\ n >= Len(mb_img[1])
                          /\ n >= Len(mb_cap[1])
                          /\ n >= Len(mb_ind[1])
       IN  /\ longest >= 1
           /\ \/ /\ Len(mb_img[1]) = longest
                 /\ mb_img' = Some(DropLast(mb_img[1]))
                 /\ UNCHANGED <<mb_cap, mb_ind>>
              \/ /\ Len(mb_cap[1]) = longest
                 /\ mb_cap' = Some(DropLast(mb_cap[1]))
                 /\ UNCHANGED <<mb_img, mb_ind>>
              \/ /\ Len(mb_ind[1]) = longest
                 /\ mb_ind' = Some(DropLast(mb_ind[1]))
                 /\ UNCHANGED <<mb_img, mb_cap>>
    /\ UNCHANGED <<criterion, call>>

\* VSE.forward_emb: the embeddings of a batch of samples.  The caption of
\* sample i lies at the image's embedding when the pair is aligned and at
\* Emb(i + 1) when it is not.
BatchImages(indices) == Tensor1([p \in 1..Len(indices) |-> Emb(indices[p])])
BatchCaptions(indices, aligned) ==
    Tensor1([p \in 1..Len(indices) |->
                IF aligned[p] THEN Emb(indices[p]) ELSE Emb(indices[p] + 1)])

\* forward_loss that stores the filtered bank back into the VSE fields.
forward_loss_writing_bank ==
    /\ call.res.outcome = "none"
    /\ \E bsize \in 0..MaxB :
         \E indices \in [1..bsize -> Ids], aligned \in [1..bsize -> BOOLEAN] :
            LET img_emb == BatchImages(indices)
                cap_emb == BatchCaptions(indices, aligned)
                loss == forward(criterion, img_emb, cap_emb, mb_img, mb_cap, mb_ind, indices)
            IN  /\ call' = [im |-> img_emb, s |-> cap_emb, indices |-> indices,
                            logged |-> (loss.outcome = "returned"), res |-> loss]
                /\ IF mb_img # None /\ loss.outcome = "returned"
                   THEN /\ mb_img' = Some(loss.bank_img)
                        /\ mb_cap' = Some(loss.bank_cap)
                   ELSE UNCHANGED <<mb_img, mb_cap>>
    /\ UNCHANGED <<criterion, mb_ind>>

\* VSE.forward_loss: the criterion is called with the three bank fields; when
\* it returns, the loss is logged and returned to the caller.
forward_loss ==
    /\ call.res.outcome = "none"
    /\ \E bsize \in 0..MaxB :
         \E indices \in [1..bsize -> Ids], aligned \in [1..bsize -> BOOLEAN] :
            LET img_emb == BatchImages(indices)
                cap_emb == BatchCaptions(indices, aligned)
                loss == forward(criterion, img_emb, cap_emb, mb_img, mb_cap, mb_ind, indices)
            IN  call' = [im |-> img_emb, s |-> cap_emb, indices |-> indices,
                         logged |-> (loss.outcome = "returned"), res |-> loss]
    /\ UNCHANGED <<criterion, mb_img, mb_cap, mb_ind>>

\* VSE.train_emb after forward_loss returned: backward and the optimizer
\* step consume the loss, and the call is over.
train_emb_step ==
    /\ call.res.outcome = "returned"
    /\ call' = NoCall
    /\ UNCHANGED <<criterion, mb_img, mb_cap, mb_ind>>

\* The exception raised in forward leaves forward_loss and train_emb.
train_emb_raise ==
    /\ call.res.outcome = "raised"
    /\ call' = NoCall
    /\ UNCHANGED <<criterion, mb_img, mb_cap, mb_ind>>

Next ==
    \/ SetBank
    \/ SetBankField
    \/ forward_loss
    \/ train_emb_step
    \/ train_emb_raise

Spec == Init /\ [][Next]_vars

(* ----------------------------- properties ------------------------------ *)
B == Len(call.im)
Called == call.res.outcome # "none"
Returned == call.res.outcome = "returned"
HingeMode == criterion.opt.max_violation \/ criterion.opt.sum_violation
SmoothMode == ~HingeMode
BankSupplied == mb_img # None
BankLengthsEqual ==
    /\ BankSupplied
    /\ Len(mb_img[1]) = Len(mb_ind[1])
    /\ Len(mb_cap[1]) = Len(mb_ind[1])
BatchIds == Range(call.indices)
\* Positions of the bank whose identity is no identity of the current batch.
Usable == {p \in 1..Len(mb_ind[1]) : mb_ind[1][p] \notin BatchIds}
Colliding == {p \in 1..Len(mb_ind[1]) : mb_ind[1][p] \in BatchIds}

RECURSIVE RemoveColliding(_, _, _)
\* The entries of arr at the positions whose identity is not in batch,
\* removed by hand, position by position.
RemoveColliding(arr, ids, batch) ==
    IF arr = <<>> THEN <<>>
    ELSE (IF Head(ids) \in batch THEN <<>> ELSE <<Head(arr)>>)
         \o RemoveColliding(Tail(arr), Tail(ids), batch)

\* The same call without a bank.
NoBankResult == forward(criterion, call.im, call.s, None, None, None, call.indices)

\* C1: in hinge mode, for every non-empty batch, forward returns
\* sum(cost_caption) + sum(cost_image) of the hinge costs of the score matrix.
C1_HingeReturnsCost ==
    (Called /\ HingeMode /\ B >= 1) =>
        /\ Returned
        /\ call.res.loss = hinge_cost(criterion, Sim(criterion.sim, call.im, call.s), B)

\* C2: a bank with no usable entry gives, without error, the loss of the
\* same call made with no bank.
C2_EmptyBankFallsBack ==
    (Called /\ SmoothMode /\ BankLengthsEqual /\ Usable = {}) =>
        /\ Returned
        /\ call.res.isnan = NoBankResult.isnan
        /\ call.res.loss = NoBankResult.loss

\* C3: for a non-empty batch and a bank with at least one but fewer than
\* mb_k usable entries, top-k is taken with k equal to the number of usable
\* entries and the call returns.
C3_TopkClampedToBank ==
    (Called /\ SmoothMode /\ BankLengthsEqual /\ B >= 1
        /\ Cardinality(Usable) >= 1 /\ Cardinality(Usable) < criterion.opt.mb_k) =>
        /\ Returned
        /\ call.res.topk_k # <<>>
        /\ \A a \in 1..Len(call.res.topk_k) : call.res.topk_k[a] = Cardinality(Usable)

\* C4: the bank entries that are scored are exactly those whose identity is
\* no identity of the batch, in both directions, and the call ends with the
\* weights wit and wii it computes when the colliding entries are removed
\* from the bank by hand before the call.
C4_CollidingNeverScored ==
    (Called /\ SmoothMode /\ BankLengthsEqual) =>
        LET img == RemoveColliding(mb_img[1], mb_ind[1], BatchIds)
            cap == RemoveColliding(mb_cap[1], mb_ind[1], BatchIds)
            ind == RemoveColliding(mb_ind[1], mb_ind[1], BatchIds)
            removed == forward(criterion, call.im, call.s,
                               Some(img), Some(cap), Some(ind), call.indices)
        IN  /\ call.res.bank_img = img
            /\ call.res.bank_cap = cap
            /\ call.res.outcome = removed.outcome
            /\ call.res.wit = removed.wit
            /\ call.res.wii = removed.wii

C4_Witness ==
    /\ Called /\ SmoothMode /\ BankLengthsEqual /\ Returned
    /\ Colliding # {} /\ Usable # {}
    /\ B >= 1
    /\ call.res.wit # <<>>

\* C5 as stated: the loss returned for a non-empty batch is never negative.
C5_LossNonNegative ==
    (Returned /\ B >= 1) => call.res.loss >= 0

\* C5 amended: of every loss returned for a non-empty batch, each positive
\* term is <= 0, each ranking term is >= 0, and the loss is at least the
\* mean of the positive terms.
C5_LossBoundedByPositiveTerm ==
    (Returned /\ B >= 1) =>
        /\ \A i \in 1..B : call.res.loss_diag[i] <= 0
        /\ \A i \in 1..B : call.res.rank_term[i] >= 0
        /\ call.res.loss >= SumSeq(call.res.loss_diag) \div B

C5_Witness ==
    /\ Returned /\ B >= 1
    /\ call.res.loss < 0
    /\ \E i \in 1..B : call.res.loss_diag[i] < 0

C7_EmptyBatchRejected ==
    (Called /\ SmoothMode /\ B = 0) => call.res.outcome = "raised"

\* C8: a smooth-mode call whose three bank arrays are not of one length
\* raises and returns no loss.
C8_UnequalBankRejected ==
    (Called /\ SmoothMode /\ BankSupplied /\ ~BankLengthsEqual) =>
        /\ call.res.outcome = "raised"
        /\ ~call.logged

C8_Witness ==
    /\ Called /\ SmoothMode /\ BankSupplied /\ ~BankLengthsEqual
    /\ call.res.error = "IndexError"
    /\ B >= 1

\* C9: no step that starts or ends a forward_loss call changes VSE.mb_img,
\* VSE.mb_cap or VSE.mb_ind.
C9_BankNeverWritten ==
    [][call' # call => <<mb_img, mb_cap, mb_ind>>' = <<mb_img, mb_cap, mb_ind>>]_vars

C9_Witness ==
    /\ Returned /\ BankLengthsEqual /\ Colliding # {}
    /\ Len(call.res.bank_img) < Len(mb_img[1])
    /\ Len(call.res.bank_cap) < Len(mb_cap[1])

\* C10: every torch.topk call of the bank path is made with k = B when
\* B < opt.mb_k and k = opt.mb_k otherwise, however many bank entries are
\* usable, and a call that returns has made all four with that k.
C10_TopkCountFromBatch ==
    (Called /\ call.res.topk_k # <<>>) =>
        /\ \A a \in 1..Len(call.res.topk_k) :
              call.res.topk_k[a] = IF B < criterion.opt.mb_k THEN B ELSE criterion.opt.mb_k
        /\ Returned => Len(call.res.topk_k) = 4

C10_Witness ==
    /\ Returned /\ BankLengthsEqual
    /\ B >= 1 /\ B < criterion.opt.mb_k
    /\ Cardinality(Usable) > B
    /\ call.res.topk_k = <<B, B, B, B>>

====
